---- MODULE Spec2Model ----
(***************************************************************************)
(* Model of adafruit_ds1307.py: the DS1307 real-time-clock driver.         *)
(*                                                                         *)
(* The state is the chip's 64-byte register file (0x00-0x06 time, 0x07     *)
(* control, 0x08-0x3F NVRAM) as seen through the I2C calls the driver      *)
(* makes, the driver object, and a record of the last driver call: its     *)
(* outcome and the bus transfers it made.                                  *)
(*                                                                         *)
(* The module supports two runtimes (bootMicro): under MicroPython a       *)
(* bytearray item store keeps the low 8 bits of an out-of-range value,     *)
(* under CPython it raises ValueError.  Both outcomes are modelled.        *)
(*                                                                         *)
(* DS1307.datetime is indented with tabs in the source (lines 250-282); it *)
(* is modelled as the method of class DS1307 that its place and its use of *)
(* self show it to be.                                                     *)
(***************************************************************************)
EXTENDS Integers, Sequences, FiniteSets, TLC

VARIABLES regs, rtc, bootMicro, bus, result

vars == <<regs, rtc, bootMicro, bus, result>>

----------------------------------------------------------------------------
(* Bounds of the model *)

\* longest all-zero buffer passed to memory(), besides the six-byte one
MaxBufLen == 1

----------------------------------------------------------------------------
(* Program constants *)

NVRAM_REGISTER == 8
DATETIME_REGISTER == 0
SQUARE_WAVE_REGISTER == 7
STOP_MASK == 128
SECOND_MASK == 63
NVRAM_SIZE == 56
YEAR_BASE == 2000
\* the chip's register file: time and control registers, then the NVRAM
CHIP_REGISTERS == NVRAM_REGISTER + NVRAM_SIZE

Byte == 0..255
RegAddr == 0..(CHIP_REGISTERS - 1)

----------------------------------------------------------------------------
(* Bit operations on non-negative integers *)

RECURSIVE BitAnd(_, _)
BitAnd(a, b) ==
    IF a = 0 \/ b = 0 THEN 0
    ELSE (a % 2) * (b % 2) + 2 * BitAnd(a \div 2, b \div 2)

RECURSIVE BitOr(_, _)
BitOr(a, b) ==
    IF a = 0 THEN b
    ELSE IF b = 0 THEN a
    ELSE (IF (a % 2) + (b % 2) > 0 THEN 1 ELSE 0) + 2 * BitOr(a \div 2, b \div 2)

\* data & ~mask for non-negative data and mask
BitAndNot(data, mask) == data - BitAnd(data, mask)

----------------------------------------------------------------------------
(* Functions *)

datetime_tuple(year, month, day, weekday, hour, minute, second, millisecond) ==
    [year |-> year, month |-> month, day |-> day, weekday |-> weekday,
     hour |-> hour, minute |-> minute, second |-> second,
     millisecond |-> millisecond]

bcd2bin(value) == value - 6 * (value \div 16)

\* slip: the tens digit taken with the divisor of bcd2bin
bin2bcd_shift(value) == value + 6 * (value \div 16)

bin2bcd(value) == value + 6 * (value \div 10)

----------------------------------------------------------------------------
(* The I2C bus and the chip behind it.  The chip's register pointer is six *)
(* bits wide and wraps from 0x3F to 0x00.                                  *)

ChipAddr(register) == register % CHIP_REGISTERS

readfrom_mem(r, register, n) ==
    [i \in 1..n |-> r[ChipAddr(register + i - 1)]]

writeto_mem(r, register, buffer) ==
    [a \in RegAddr |->
        LET i == ((a - register) % CHIP_REGISTERS) + 1
        IN  IF i <= Len(buffer) THEN buffer[i] ELSE r[a]]

Transfer(kind, register, data) ==
    [kind |-> kind, register |-> register, data |-> data]

\* the outcome of a driver call: how it ended, what it returned, the bus
\* transfers it made and the chip registers afterwards
Outcome(status, value, transfers, r) ==
    [status |-> status, value |-> value, bus |-> transfers, regs |-> r]

----------------------------------------------------------------------------
(* class _BaseRTC *)

register_read(r, register) ==
    LET data == readfrom_mem(r, register, 1)
    IN  Outcome("ok", data[1], <<Transfer("readfrom_mem", register, data)>>, r)

register_write(r, register, buffer) ==
    Outcome("ok", "None", <<Transfer("writeto_mem", register, buffer)>>,
            writeto_mem(r, register, buffer))

flag_get(r, register, mask) ==
    LET rd == register_read(r, register)
    IN  Outcome("ok", BitAnd(rd.value, mask) # 0, rd.bus, r)

\* slip: the mask written over the register instead of merged into it
flag_data_overwrite(data, mask, value) ==
    IF value THEN mask ELSE 0

flag_data(data, mask, value) ==
    IF value THEN BitOr(data, mask) ELSE BitAndNot(data, mask)

flag_set(r, register, mask, value) ==
    LET rd == register_read(r, register)
        wr == register_write(r, register, <<flag_data(rd.value, mask, value)>>)
    IN  Outcome("ok", "None", rd.bus \o wr.bus, wr.regs)

----------------------------------------------------------------------------
(* class DS1307 *)

\* buffer[i] = v on a bytearray: does the store raise?
StoreRaises(micro, v) == ~micro /\ v \notin Byte

\* buffer[i] = v on a bytearray: the byte kept when it does not raise
StoredByte(v) == v % 256

datetime_decode(buffer) ==
    datetime_tuple(bcd2bin(buffer[7]) + YEAR_BASE,
                   bcd2bin(buffer[6]),
                   bcd2bin(buffer[5]),
                   bcd2bin(buffer[4]),
                   bcd2bin(buffer[3]),
                   bcd2bin(buffer[2]),
                   bcd2bin(BitAnd(buffer[1], SECOND_MASK)),
                   0)

datetime_get(r) ==
    LET buffer == readfrom_mem(r, DATETIME_REGISTER, 7)
    IN  Outcome("ok", datetime_decode(buffer),
                <<Transfer("readfrom_mem_into", DATETIME_REGISTER, buffer)>>, r)

datetime_encode(datetime) ==
    <<bin2bcd(datetime.second),
      bin2bcd(datetime.minute),
      bin2bcd(datetime.hour),
      bin2bcd(datetime.weekday),
      bin2bcd(datetime.day),
      bin2bcd(datetime.month),
      bin2bcd(datetime.year - YEAR_BASE)>>

datetime_set(r, micro, datetime) ==
    LET values == datetime_encode(datetime)
    IN  IF \E i \in 1..7 : StoreRaises(micro, values[i])
        THEN Outcome("ValueError", "None", <<>>, r)
        ELSE register_write(r, DATETIME_REGISTER,
                            [i \in 1..7 |-> StoredByte(values[i])])

stop_get(r) == flag_get(r, 0, STOP_MASK)

stop_set(r, value) == flag_set(r, 0, STOP_MASK, value)

\* slip: off by one, the exact fit rejected
MemoryOutOfRange_strict(address, buffer) == address + Len(buffer) >= NVRAM_SIZE

MemoryOutOfRange(address, buffer) == address + Len(buffer) > NVRAM_SIZE

memory_read(r, address) == register_read(r, NVRAM_REGISTER + address)

memory_write(r, address, buffer) ==
    IF MemoryOutOfRange(address, buffer)
    THEN Outcome("ValueError", "None", <<>>, r)
    ELSE register_write(r, NVRAM_REGISTER + address, buffer)

\* slip: a silent no-op instead of an explicit failure
alarm_time_silent(r, datetime) == Outcome("ok", "None", <<>>, r)

alarm_time(r, datetime) == Outcome("NotImplementedError", "None", <<>>, r)

----------------------------------------------------------------------------
(* Inputs *)

BaseDateTime == datetime_tuple(2024, 3, 15, 5, 13, 45, 30, 0)

MinDateTime == datetime_tuple(2000, 1, 1, 0, 0, 0, 0, 0)

MaxDateTime == datetime_tuple(2099, 12, 31, 6, 23, 59, 59, 0)

Years == {1999, 2159, 2160, 2256}

Seconds == {40}

DateTimes ==
    {BaseDateTime, MinDateTime, MaxDateTime}
    \cup {[BaseDateTime EXCEPT !.year = y] : y \in Years}
    \cup {[BaseDateTime EXCEPT !.second = s] : s \in Seconds}

SixBytes == <<1, 2, 3, 4, 5, 6>>

ZeroBuffers == {[i \in 1..n |-> 0] : n \in 1..MaxBufLen}

Buffers == ZeroBuffers \cup {SixBytes}

WriteOffsets == {-8, 50, 51}

ReadOffsets == {50, 56}

----------------------------------------------------------------------------
(* State machine *)

PowerOnRegs(sec, ctl) ==
    [a \in RegAddr |->
        IF a = 0 THEN sec
        ELSE IF a \in {3, 4, 5} THEN 1
        ELSE IF a = SQUARE_WAVE_REGISTER THEN ctl
        ELSE 0]

Init ==
    /\ \E ctl \in {3, 0} : regs = PowerOnRegs(STOP_MASK, ctl)
    /\ rtc = "unconstructed"
    /\ bootMicro \in BOOLEAN
    /\ bus = <<>>
    /\ result = [op |-> "none", status |-> "ok", arg |-> "None", value |-> "None"]

Apply(op, arg, out) ==
    /\ regs' = out.regs
    /\ bus' = out.bus
    /\ result' = [op |-> op, status |-> out.status, arg |-> arg, value |-> out.value]
    /\ UNCHANGED bootMicro

\* _BaseRTC.__init__: stores the bus handle and the address
Construct ==
    /\ rtc = "unconstructed"
    /\ rtc' = "ready"
    /\ Apply("init", "None", Outcome("ok", "None", <<>>, regs))

DateTimeGet ==
    /\ rtc = "ready"
    /\ Apply("datetime_get", "None", datetime_get(regs))
    /\ UNCHANGED rtc

DateTimeSet ==
    /\ rtc = "ready"
    /\ \E dt \in DateTimes : Apply("datetime_set", dt, datetime_set(regs, bootMicro, dt))
    /\ UNCHANGED rtc

StopGet ==
    /\ rtc = "ready"
    /\ Apply("stop_get", "None", stop_get(regs))
    /\ UNCHANGED rtc

StopSet ==
    /\ rtc = "ready"
    /\ \E v \in BOOLEAN : Apply("stop_set", v, stop_set(regs, v))
    /\ UNCHANGED rtc

MemoryRead ==
    /\ rtc = "ready"
    /\ \E a \in ReadOffsets : Apply("memory_read", a, memory_read(regs, a))
    /\ UNCHANGED rtc

MemoryWrite ==
    /\ rtc = "ready"
    /\ \E a \in WriteOffsets, b \in Buffers :
          Apply("memory_write", [address |-> a, buffer |-> b], memory_write(regs, a, b))
    /\ UNCHANGED rtc

AlarmTime ==
    /\ rtc = "ready"
    /\ \/ Apply("alarm_time", "None", alarm_time(regs, "None"))
       \/ \E dt \in {BaseDateTime} : Apply("alarm_time", dt, alarm_time(regs, dt))
    /\ UNCHANGED rtc

Next ==
    \/ Construct
    \/ DateTimeGet
    \/ DateTimeSet
    \/ StopGet
    \/ StopSet
    \/ MemoryRead
    \/ MemoryWrite
    \/ AlarmTime

Spec == Init /\ [][Next]_vars

----------------------------------------------------------------------------
(* Vocabulary of the properties *)

\* binary-coded decimal: one decimal digit per nibble
SpecBCD(n) == 16 * (n \div 10) + (n % 10)

ValidFields(v) ==
    /\ v.month \in 1..12
    /\ v.day \in 1..31
    /\ v.weekday \in 0..6
    /\ v.hour \in 0..23
    /\ v.minute \in 0..59
    /\ v.second \in 0..59

ValidCalendar(v) == ValidFields(v) /\ v.year \in 2000..2255

SpecImage(v) ==
    <<SpecBCD(v.second), SpecBCD(v.minute), SpecBCD(v.hour), SpecBCD(v.weekday),
      SpecBCD(v.day), SpecBCD(v.month), SpecBCD(v.year - 2000)>>

\* the call just made was a time write of v that did one 7-byte write of
\* v's register image at register 0
WroteImage(v) ==
    /\ result.status = "ok"
    /\ bus = <<Transfer("writeto_mem", 0, SpecImage(v))>>
    /\ \A i \in 1..7 : regs[i - 1] = SpecImage(v)[i]
    /\ regs[0] < 128

----------------------------------------------------------------------------
(* Properties *)

\* C1: for every valid calendar value v, a time write of v followed directly
\* by a time read returns v in all seven fields.
C1_RoundTrip ==
    [][(/\ result.op = "datetime_set"
        /\ ValidCalendar(result.arg)
        /\ result'.op = "datetime_get")
       => (result.status = "ok" /\ result'.value = result.arg)]_vars

\* C2: a time read of a register 0 holding BCD(s), s in 0..59, with either
\* value of bit 7, reports second s; and writing the stop flag never
\* changes the time a read reports.
C2_SecondsIgnoreBit7 ==
    [][/\ result'.op = "datetime_get"
          => \A s \in 0..59 :
                regs[0] % 128 = SpecBCD(s) => result'.value.second = s
       /\ result'.op = "stop_set"
          => datetime_get(regs').value = datetime_get(regs).value]_vars

C4_YearRangeError ==
    [][(result'.op = "datetime_set" /\ result'.arg.year \notin 2000..2255)
       => (result'.status = "ValueError" /\ bus' = <<>> /\ regs' = regs)]_vars

\* C5: construction reads register 0x07 and succeeds exactly when its low
\* two bits are 0b11; otherwise it fails and no driver object exists.
C5_ConstructionGate ==
    result.op = "init"
        => /\ \E i \in 1..Len(bus) : bus[i].register = SQUARE_WAVE_REGISTER
           /\ result.status = "ok" <=> regs[SQUARE_WAVE_REGISTER] % 4 = 3
           /\ rtc = "ready" <=> result.status = "ok"

\* C6: a memory write at offset >= 0 fails with a range error exactly when
\* offset + len > 56; a failure makes no bus transfer and changes no
\* register, a success is one write of the buffer at register 0x08 + offset.
C6_WriteMemoryBound ==
    [][(result'.op = "memory_write" /\ result'.arg.address >= 0)
       => LET a == result'.arg.address
              b == result'.arg.buffer
          IN  IF a + Len(b) > 56
              THEN /\ result'.status = "ValueError"
                   /\ bus' = <<>>
                   /\ regs' = regs
              ELSE /\ result'.status = "ok"
                   /\ bus' = <<Transfer("writeto_mem", 8 + a, b)>>
                   /\ \A x \in RegAddr :
                         regs'[x] = IF x \in (8 + a)..(8 + a + Len(b) - 1)
                                    THEN b[x - (8 + a) + 1]
                                    ELSE regs[x]]_vars

C6_Witness ==
    /\ result.op = "memory_write"
    /\ result.arg = [address |-> 50, buffer |-> SixBytes]
    /\ result.status = "ok"
    /\ \A i \in 1..6 : regs[57 + i] = i

\* C7: a memory read of length 1 at an offset with offset + 1 > 56 fails with
\* a range error before any bus transfer; otherwise it returns the byte at
\* register 0x08 + offset.
C7_ReadMemoryBound ==
    [][result'.op = "memory_read"
       => IF result'.arg + 1 > 56
          THEN result'.status = "ValueError" /\ bus' = <<>>
          ELSE /\ result'.status = "ok"
               /\ result'.value = regs[8 + result'.arg]]_vars

\* C8: the alarm call always fails with the unsupported error, in every
\* state and for every argument, with no bus transfer and no register
\* changed.
C8_AlarmUnsupported ==
    [][result'.op = "alarm_time"
       => /\ result'.status = "NotImplementedError"
          /\ bus' = <<>>
          /\ regs' = regs]_vars

C8_Witness ==
    /\ result.op = "alarm_time"
    /\ result.status = "NotImplementedError"
    /\ bus = <<>>
    /\ regs[0] = 48

\* C9: writing the stop flag changes only bit 7 of register 0 (set by True,
\* cleared by False, bits 0-6 and every other register kept), and a flag
\* read directly after returns the value written.
C9_StopFlagFrame ==
    [][/\ result'.op = "stop_set"
          => regs' = [regs EXCEPT ![0] =
                         (regs[0] % 128) + (IF result'.arg THEN 128 ELSE 0)]
       /\ (result.op = "stop_set" /\ result'.op = "stop_get")
          => result'.value = result.arg]_vars

C9_Witness ==
    /\ result.op = "stop_set"
    /\ result.arg = TRUE
    /\ regs[0] = 128 + 48
    /\ regs[1] = 69

\* C10: memory reads and writes, at any offset, never change registers
\* 0x00-0x07.
C10_MemoryFrame ==
    [][result'.op \in {"memory_read", "memory_write"}
       => \A a \in 0..7 : regs'[a] = regs[a]]_vars

====
